---- MODULE Spec2Model ----
(***************************************************************************)
(* A model of byte-cache's filesystem tier (src/src/fs.rs): the store root *)
(* as a map from entry names to inodes, the admission semaphore, and the   *)
(* put / get / write (open) operations as processes stepping through their *)
(* system calls.                                                           *)
(*                                                                         *)
(* Names are sequences of one-character strings, so that the path          *)
(* arithmetic of the code (with_extension, ends_with, components) is       *)
(* computed as the code computes it.                                       *)
(***************************************************************************)
EXTENDS Naturals, Sequences, FiniteSets, TLC

(***************************************************************************)
(* Bounds of the model.                                                    *)
(***************************************************************************)
MaxLimit == 2       \* the limits a store is opened with are 0..MaxLimit
MaxCalls == 2       \* calls started in one behaviour, one call at a time
MaxConcCalls == 3   \* calls started in one behaviour of concurrent calls
MaxOpens == 2       \* re-openings (process restarts) in one behaviour
MaxTicks == 3       \* clock ticks in one behaviour
TickSecs == 150     \* seconds per clock tick

(***************************************************************************)
(* Constants of the program.                                               *)
(***************************************************************************)
MAX_RETRIES == 3            \* fs.rs:401
MAX_KEY_LEN == 255          \* fs.rs:677
STALE_LOCK_SECS == 300      \* fs.rs:229

(***************************************************************************)
(* Strings.                                                                *)
(***************************************************************************)
NUL == "NUL"        \* the character '\0'

starts_with(s, p) ==
    /\ Len(p) <= Len(s)
    /\ SubSeq(s, 1, Len(p)) = p

ends_with(s, p) ==
    /\ Len(p) <= Len(s)
    /\ SubSeq(s, Len(s) - Len(p) + 1, Len(s)) = p

contains(s, c) == \E i \in 1..Len(s) : s[i] = c

\* The index of the last occurrence of c in s, 0 when there is none.
LastIndexOf(s, c) ==
    IF contains(s, c)
    THEN CHOOSE i \in 1..Len(s) : s[i] = c /\ \A j \in (i+1)..Len(s) : s[j] # c
    ELSE 0

\* s split at every '/', as a sequence of segments (possibly empty ones).
RECURSIVE SplitSlash(_)
SplitSlash(s) ==
    IF ~contains(s, "/") THEN <<s>>
    ELSE LET i == CHOOSE k \in 1..Len(s) :
                      s[k] = "/" /\ \A j \in 1..(k-1) : s[j] # "/"
         IN  <<SubSeq(s, 1, i - 1)>> \o SplitSlash(SubSeq(s, i + 1, Len(s)))

\* std::path::Path::components on unix: the kind of every component.
\* A leading '/' is RootDir; empty segments and inner "." segments are
\* skipped; a leading "." is CurDir; ".." is ParentDir; the rest Normal.
Components(s) ==
    LET segs == SplitSlash(s)
        abs  == Len(s) > 0 /\ s[1] = "/"
        kind(i) ==
            IF segs[i] = <<>> THEN "skip"
            ELSE IF segs[i] = <<".">>
                 THEN (IF i = 1 /\ ~abs THEN "CurDir" ELSE "skip")
            ELSE IF segs[i] = <<".", ".">> THEN "ParentDir"
            ELSE "Normal"
        kinds == [i \in 1..Len(segs) |-> kind(i)]
    IN  (IF abs THEN <<"RootDir">> ELSE <<>>)
        \o SelectSeq(kinds, LAMBDA k : k # "skip")

\* A mutant of validate_key: every key passes.
AcceptAnyKey(key) == "Ok"

\* validate_key, fs.rs:668-712: "Ok" or the error kind.
validate_key(key) ==
    IF key = <<>> THEN "InvalidInput"
    ELSE IF Len(key) > MAX_KEY_LEN THEN "InvalidInput"
    ELSE IF \E i \in 1..Len(Components(key)) : Components(key)[i] # "Normal"
         THEN "InvalidInput"
    ELSE IF contains(key, "/") \/ contains(key, NUL) THEN "InvalidInput"
    ELSE IF starts_with(key, <<".">>) THEN "InvalidInput"
    ELSE "Ok"

\* std::path::Path::file_stem of a file name: the whole name when it holds
\* no '.' or only a leading one, otherwise the part before the last '.'.
file_stem(name) ==
    LET i == LastIndexOf(name, ".")
    IN  IF name = <<".", ".">> \/ i <= 1 THEN name
        ELSE SubSeq(name, 1, i - 1)

\* std::path::Path::with_extension: the stem, a '.', and the extension as
\* given (a leading dot of the extension is not stripped).
with_extension(name, ext) ==
    IF ext = <<>> THEN file_stem(name)
    ELSE file_stem(name) \o <<".">> \o ext

LockExt == <<".", "l", "o", "c", "k">>      \* the argument ".lock"
TmpExt  == <<".", "t", "m", "p">>           \* the argument ".tmp"

\* put's key_lock_path and temp_path / check_path (file names in the root).
key_lock_path(key) == with_extension(key, LockExt)
temp_path(key)     == with_extension(key, TmpExt)

(***************************************************************************)
(* The universe of the model.                                              *)
(***************************************************************************)
KeyA     == <<"a">>
KeyB     == <<"b">>
KeyATmp  == <<"a", ".", ".", "t", "m", "p">>        \* the key "a..tmp"
KeyALock == <<"a", ".", ".", "l", "o", "c", "k">>   \* the key "a..lock"
Keys     == {KeyA, KeyB, KeyATmp, KeyALock}

\* Keys of every class validate_key refuses: empty, longer than 255 bytes,
\* with a '/', with a NUL, with a leading '.', and the parent directory.
KeyEmpty  == <<>>
KeyLong   == [i \in 1..(MAX_KEY_LEN + 1) |-> "a"]
KeySlash  == <<"a", "/", "b">>
KeyNul    == <<"a", NUL>>
KeyDot    == <<".", "a">>
KeyParent == <<".", ".">>
InvalidKeys == {KeyEmpty, KeyLong, KeySlash, KeyNul, KeyDot, KeyParent}

\* Cacheable::PREFIX of the cached type.
PREFIX == <<"p">>

\* lib.rs:169-171: format!("{}_{}", C::PREFIX, entry.key().await).
build_key(prefix, key) == prefix \o <<"_">> \o key

\* The keys the callers ask for: two that make file names and one that
\* does not.
OmneKeys == {KeyA, KeyB, KeySlash}

\* Valid keys with and without an extension: "a", "a.x" and "a..tmp".
KeyAX    == <<"a", ".", "x">>
NameKeys == {KeyA, KeyAX, KeyATmp}

\* Every key a call is made with.
AllKeys ==
    Keys \cup InvalidKeys \cup NameKeys
        \cup {build_key(PREFIX, k) : k \in OmneKeys}

D1 == <<1, 2>>
D2 == <<3, 4>>
Payloads == {D1, D2}

Writers == {1, 2}
Readers == {1}

Permanent == {"PermissionDenied", "NotFound", "InvalidInput", "AlreadyExists"}

(***************************************************************************)
(* State.                                                                  *)
(***************************************************************************)
VARIABLES
    dir,        \* the store root: "absent", "rw" or "ro"
    fs,         \* the entries of the root: name -> inode
    ino,        \* the inodes in use: inode -> content
    age,        \* for the entries named *.lock: clock ticks since their mtime
    limit,      \* ReadWrite._limit
    permits,    \* available permits of ReadWrite._semaphore
    wr,         \* the put calls, one record per writer
    rd,         \* the get calls, one record per reader
    puts,       \* history: key -> the payloads put was called with
    stored,     \* history: the keys a put has returned Ok for
    last,       \* history: the call that returned last, until the next starts
    fit,        \* history: the live entries found by write were at most limit
    sweep,      \* history: what the last start-up recovery removed and kept
    links,      \* the entries of the root that are symbolic links: name -> target
    calls,      \* number of calls started
    opens,      \* number of re-openings
    ticks,      \* number of clock ticks
    faults,     \* number of injected I/O faults
    ctor,       \* the constructor calls (read, write), one record each
    omne        \* the OmneCache: its memory and sideload tiers, its last call

vars == <<dir, fs, ino, age, limit, permits, wr, rd, puts, stored, last,
          fit, sweep, links,
          calls, opens, ticks, faults, ctor, omne>>

MaxFaults == 3      \* injected I/O faults in one behaviour

\* A put call: its position, arguments, attempt number, permit and open
\* temp file; and, as history, whether an injected fault hit it (flt),
\* whether it acquired a permit (acq), the permits (p0) and the keys
\* stored (s0) when it started, and which of its lock and temp file it
\* created (mk), the errors of its failed attempts (errs), whether the
\* entry of its key existed when it started (ex0) and whether its admission
\* found no permit (rej), and the live entries of the root with their
\* contents when it started (f0); det: the call has returned TimedOut and
\* its blocking task runs on.
IdleW == [pc |-> "idle", key |-> <<>>, data |-> <<>>, att |-> 0,
          permit |-> FALSE, fd |-> 0, pos |-> 0,
          flt |-> FALSE, acq |-> FALSE, p0 |-> 0, s0 |-> {},
          mk |-> {}, det |-> FALSE, errs |-> <<>>,
          ex0 |-> FALSE, rej |-> FALSE, f0 |-> <<>>]

\* The callers of the constructors FsCache<Read>::read and
\* FsCache<ReadWrite>::write.
Constructors == {1, 2}

\* A constructor call: its position, which constructor it is, whether the
\* path was absent when it started, its open .directory.lock, its result.
IdleC == [pc |-> "idle", kind |-> "none", abs0 |-> FALSE, fd |-> 0,
          res |-> "none"]

\* No call of OmneCache has returned: the previous call (prev) and the last
\* one.
NoGet == [key |-> <<>>, hit |-> "none", val |-> <<>>, op |-> "none",
          res |-> "none"]

\* No OmneCache is in use: no tier is enabled.  An OmneCache is the set of
\* its enabled tiers (on), the capacity and the content of the LRU cache,
\* most recently used first (cap, mem), the entries of the sideload
\* directory (side), and the history of its last call: the key built, the
\* enabled tiers that held it when the call started (held), the tiers the
\* call consulted (seen), the tier that answered (hit), the result,
\* whether a get of a directory tier was made to fail (flt), the value of
\* the last put that returned Ok, by key (wrote), the keys the memory
\* tier held when the last put started (m0), and the prefixes of the types
\* put was called for, by key built (owner); and the configuration
\* try_from was called with (cfg) and what it returned (built).
\* OmneCacheCfg (configuration/mod.rs:93-100) with no sub-configuration;
\* an Option is a set, empty for None.
NoCfg == [memory |-> {}, sideload |-> {}, disk |-> {}]

NoOmne ==
    [on |-> {}, cap |-> 0, mem |-> <<>>, side |-> <<>>, op |-> "none",
     key |-> <<>>, held |-> {}, seen |-> <<>>, hit |-> "none",
     res |-> "none", val |-> <<>>, flt |-> FALSE, prev |-> NoGet,
     wrote |-> <<>>, m0 |-> {}, owner |-> <<>>,
     cfg |-> NoCfg, built |-> "none"]

\* No call has returned since the last one started.
NoCall == [op |-> "none"]

\* A get call: its position, argument and open file; and, as history,
\* whether an injected fault hit it and the call that returned before it.
IdleR == [pc |-> "idle", key |-> <<>>, fd |-> 0,
          flt |-> FALSE, prev |-> NoCall]


(***************************************************************************)
(* The filesystem.                                                         *)
(***************************************************************************)
Exists(f, n) == n \in DOMAIN f

Remove(f, n) == [m \in DOMAIN f \ {n} |-> f[m]]

Bind(f, n, i) == [m \in DOMAIN f \cup {n} |-> IF m = n THEN i ELSE f[m]]

\* The least inode number not in use.
NewIno == CHOOSE i \in 1..(Cardinality(DOMAIN ino) + 1) : i \notin DOMAIN ino

\* A write of byte b at offset pos (0-based) of content c; writing beyond
\* the end leaves a hole of zero bytes.
RECURSIVE Zeros(_)
Zeros(n) == IF n = 0 THEN <<>> ELSE <<0>> \o Zeros(n - 1)

WriteAt(c, pos, b) ==
    IF pos < Len(c) THEN [c EXCEPT ![pos + 1] = b]
    ELSE c \o Zeros(pos - Len(c)) \o <<b>>

\* std::hash::Hash for [u8] with DefaultHasher: a hash of the length and
\* the bytes (a polynomial hash modulo a prime stands for SipHash; it is
\* computed from the content, and two contents may share a hash).
RECURSIVE HashBytes(_, _)
HashBytes(h, d) ==
    IF d = <<>> THEN h
    ELSE HashBytes((h * 31 + Head(d) + 1) % 65521, Tail(d))

Hash(d) == HashBytes(Len(d) + 7, d)

\* The inodes still referenced by an entry or an open file.
Live(f, w, r) ==
    {f[n] : n \in DOMAIN f}
        \cup {w[x].fd : x \in Writers} \cup {r[x].fd : x \in Readers}

\* The filesystem after a step: the entries f over the inodes i, the
\* entries in fresh being created or replaced by the step, and w and r the
\* calls after it; an inode no entry and no open file refers to is gone.
CommitWith(f, i, fresh, w, r) ==
    /\ fs' = f
    /\ ino' = [x \in DOMAIN i \cap Live(f, w, r) |-> i[x]]
    /\ age' = [n \in {m \in DOMAIN f : ends_with(m, LockExt)} |->
                 IF n \in DOMAIN age /\ n \notin fresh THEN age[n] ELSE 0]

\* After a step of a put call (wr' is set before this is used).
Commit(f, i, fresh) == CommitWith(f, i, fresh, wr', rd)

SameFs == UNCHANGED <<fs, ino, age>>

\* The entries that are no artifact of put by their name.
LiveEntries(f) ==
    {n \in DOMAIN f : ~ends_with(n, TmpExt) /\ ~ends_with(n, LockExt)}

\* The live entries with their contents.
LiveContent(f, i) == [n \in LiveEntries(f) |-> i[f[n]]]

\* Drop of put's CleanupGuard, fs.rs:383-388.
GuardDrop(f, key) == Remove(Remove(f, key_lock_path(key)), temp_path(key))

\* Symbolic links.  A link n with the target t is the pair n -> t in links;
\* while t has an entry, n resolves to the inode of t (fs[n] = fs[t]), and
\* while t has none the link dangles and n is not in fs.  So the calls that
\* follow links (exists, metadata, open, read) are lookups in fs, and the
\* calls that do not (symlink_metadata, create_new, remove_file, rename)
\* look at links as well.
IsLink(l, n) == n \in DOMAIN l

\* The name has a directory entry, a file or a link.
HasEntry(f, l, n) == n \in DOMAIN f \/ n \in DOMAIN l

\* The links of l without the names in gone.
Unlinked(l, gone) == [m \in DOMAIN l \ gone |-> l[m]]

\* The links the drop of the CleanupGuard leaves.
GuardDropLinks(l, key) == Unlinked(l, {key_lock_path(key), temp_path(key)})

\* The entries f, every link of l resolved to the inode of its target.
Resolve(f, l) ==
    [n \in (DOMAIN f \ DOMAIN l)
            \cup {m \in DOMAIN l : l[m] \in DOMAIN f \ DOMAIN l}
       |-> IF n \in DOMAIN l THEN f[l[n]] ELSE f[n]]

\* fs.rs:363-375: the temp path exists (its target does) and
\* symlink_metadata says it is a symbolic link.
symlink_detected(f, l, key) ==
    Exists(f, temp_path(key)) /\ IsLink(l, temp_path(key))

\* flock: the locks held are read off the positions of the calls.
HoldsX(w) == wr[w].pc \in {"write", "verify"}
HoldsS(r) == rd[r].pc = "read"

(***************************************************************************)
(* put, fs.rs:333-649.  One action per system call (or group of calls that *)
(* no other call can tell apart); a call that returns goes back to "idle"  *)
(* with its result in res.                                                 *)
(***************************************************************************)
\* What the caller of put gets back, and the history of the call.
PutResult(me, r) ==
    [op |-> "put", key |-> me.key, data |-> me.data, res |-> r,
     flt |-> me.flt, acq |-> me.acq, p0 |-> me.p0, s0 |-> me.s0,
     mk |-> me.mk, att |-> me.att, errs |-> me.errs,
     ex0 |-> me.ex0, rej |-> me.rej, f0 |-> me.f0]

\* Writer w, its record being me, returns r; the blocking task of a call
\* that has timed out ends with nobody to return to (fs.rs:637-647).
Returned(w, me, r) ==
    /\ wr' = [wr EXCEPT ![w] = IdleW]
    /\ IF me.det
       THEN UNCHANGED <<stored, last>>
       ELSE /\ stored' = IF r = "Ok" THEN stored \cup {me.key} ELSE stored
            /\ last' = PutResult(me, r)

\* create_dir, fs.rs:238-299, as put and write see it end: the marker
\* .directory.lock is opened inside the root, so while the root is absent
\* the open fails with NotFound.
create_dir(d) == IF d = "absent" THEN "NotFound" ELSE "Ok"

\* fs.rs:333-348: the checks of put before its blocking task starts.
PutPrecheck(key, d) ==
    IF validate_key(key) # "Ok" THEN validate_key(key)
    ELSE IF d = "absent" THEN create_dir(d)
    ELSE IF d = "ro" THEN "ReadOnlyFilesystem"
    ELSE "Ok"

\* fs.rs:333-375: validation, the directory checks, the start of the task.
PutStart(w, k, d) ==
    /\ wr[w].pc = "idle"
    /\ calls' = calls + 1
    /\ puts' = [puts EXCEPT ![k] = @ \cup {d}]
    /\ LET r  == PutPrecheck(k, dir)
           me == [IdleW EXCEPT !.key = k, !.data = d, !.p0 = permits,
                               !.s0 = stored, !.ex0 = Exists(fs, k),
                               !.f0 = LiveContent(fs, ino)]
       IN  IF r = "Ok"
           THEN /\ wr' = [wr EXCEPT ![w] = [me EXCEPT !.pc = "lock"]]
                /\ last' = NoCall
                /\ UNCHANGED stored
           ELSE Returned(w, me, r)
    /\ UNCHANGED <<ctor, omne, fit, sweep, links, dir, fs, ino, age, limit, permits, rd, opens, ticks, faults>>

\* fs.rs:360-399: the symlink check of the temp path, the guard, then the
\* per-key lock file is created with create_new.  When it exists the `?` returns AlreadyExists and the guard,
\* already built, is dropped.
CreateLock(w) ==
    /\ wr[w].pc = "lock"
    /\ LET lock == key_lock_path(wr[w].key)
       IN  IF symlink_detected(fs, links, wr[w].key)
           THEN \* fs.rs:363-371, before the guard is built
                /\ Returned(w, wr[w], "InvalidInput")
                /\ Commit(fs, ino, {})
                /\ UNCHANGED links
           ELSE IF HasEntry(fs, links, lock)
           THEN /\ Returned(w, wr[w], "AlreadyExists")
                /\ Commit(GuardDrop(fs, wr[w].key), ino, {})
                /\ links' = GuardDropLinks(links, wr[w].key)
           ELSE /\ wr' = [wr EXCEPT ![w].pc = "admit", ![w].mk = {"lock"}]
                /\ Commit(Bind(fs, lock, NewIno),
                          [x \in DOMAIN ino \cup {NewIno} |->
                             IF x = NewIno THEN <<>> ELSE ino[x]],
                          {lock})
                /\ UNCHANGED <<last, stored, links>>
    /\ UNCHANGED <<ctor, omne, fit, sweep, dir, limit, permits, rd, puts, calls, opens, ticks, faults>>

\* An admission that asks for a permit also for a key that is stored.
AlwaysNeedPermit(f, key, lim) == lim > 0

\* An admission that never asks for a permit.
NeverNeedPermit(f, key, lim) == FALSE

\* fs.rs:405-408.
need_permit(f, key, lim) == ~Exists(f, key) /\ lim > 0

\* fs.rs:405-450: admission, then the free-space check (nospace: statvfs
\* reports less than the payload and its margin).
Admit(w, nospace) ==
    /\ wr[w].pc = "admit"
    /\ LET key  == wr[w].key
           lock == key_lock_path(key)
           need == need_permit(fs, key, limit)
       IN  IF need /\ permits = 0
           THEN \* fs.rs:413-420
                /\ ~nospace
                /\ Returned(w, [wr[w] EXCEPT !.rej = TRUE],
                            IF Exists(fs, lock) THEN "StorageFull"
                            ELSE "NotFound")
                /\ Commit(GuardDrop(fs, key), ino, {})
                /\ links' = GuardDropLinks(links, key)
                /\ UNCHANGED <<permits, faults>>
           ELSE IF nospace
           THEN \* fs.rs:435-447: the permit is forgotten, not released
                /\ wr[w].data # <<>>
                /\ faults < MaxFaults
                /\ faults' = faults + 1
                /\ permits' = IF need THEN permits - 1 ELSE permits
                /\ Returned(w, [wr[w] EXCEPT !.flt = TRUE, !.acq = need],
                            IF Exists(fs, lock) THEN "StorageFull"
                            ELSE "NotFound")
                /\ Commit(GuardDrop(fs, key), ino, {})
                /\ links' = GuardDropLinks(links, key)
           ELSE /\ permits' = IF need THEN permits - 1 ELSE permits
                /\ wr' = [wr EXCEPT ![w].pc = "open", ![w].att = 1,
                                    ![w].permit = need, ![w].acq = need]
                /\ SameFs
                /\ UNCHANGED <<last, stored, faults, links>>
    /\ UNCHANGED <<ctor, omne, fit, sweep, dir, limit, rd, puts, calls, opens, ticks>>

\* fs.rs:594-625: what follows a failed attempt of writer w (its record
\* being me) with error kind, the entries being f over the inodes i.
AttemptFail(w, me0, kind, f, i) ==
    LET lock == key_lock_path(me0.key)
        me   == [me0 EXCEPT !.errs = Append(@, kind)]
    IN  IF kind \in Permanent
        THEN \* fs.rs:596-606: remove_file(lock)?, then permit.forget()
             /\ Returned(w, me, IF Exists(f, lock) THEN kind ELSE "NotFound")
             /\ permits' = IF ~Exists(f, lock) /\ me.permit
                           THEN permits + 1 ELSE permits
             /\ Commit(GuardDrop(f, me.key), i, {})
             /\ links' = GuardDropLinks(links, me.key)
        ELSE IF me.att = MAX_RETRIES
        THEN \* fs.rs:611-623: permit.forget(), then remove_file(lock)?
             /\ Returned(w, me, IF Exists(f, lock) THEN kind ELSE "NotFound")
             /\ UNCHANGED permits
             /\ Commit(GuardDrop(f, me.key), i, {})
             /\ links' = GuardDropLinks(links, me.key)
        ELSE \* fs.rs:625: sleep, next attempt
             /\ wr' = [wr EXCEPT ![w] = [me EXCEPT !.pc = "open",
                                   !.att = me.att + 1, !.fd = 0, !.pos = 0]]
             /\ UNCHANGED <<permits, last, stored, links>>
             /\ Commit(f, i, {})

\* fs.rs:454-480: the temp file is opened (created or truncated) and its
\* mode set.  err is the outcome of these calls: "Ok" or an error kind.
OpenTemp(w, err) ==
    /\ wr[w].pc = "open"
    /\ LET tmp == temp_path(wr[w].key)
       IN  IF err = "Ok"
           THEN \* open follows a link at the temp path, and creates the
                \* target of a dangling one
                /\ LET id == IF Exists(fs, tmp) THEN fs[tmp] ELSE NewIno
                       f  == IF IsLink(links, tmp)
                             THEN Bind(fs, links[tmp], id) ELSE fs
                   IN  /\ wr' = [wr EXCEPT ![w].pc = "flock", ![w].fd = id,
                                           ![w].pos = 0,
                                           ![w].mk = IF HasEntry(fs, links, tmp)
                                                     THEN @
                                                     ELSE @ \cup {"tmp"}]
                       /\ Commit(Bind(f, tmp, id),
                                 [x \in DOMAIN ino \cup {id} |->
                                    IF x = id THEN <<>> ELSE ino[x]],
                                 {tmp})
                /\ UNCHANGED <<permits, last, stored, faults, links>>
           ELSE /\ faults < MaxFaults
                /\ faults' = faults + 1
                /\ AttemptFail(w, [wr[w] EXCEPT !.flt = TRUE], err, fs, ino)
    /\ UNCHANGED <<ctor, omne, fit, sweep, dir, limit, rd, puts, calls, opens, ticks>>

\* fs.rs:483: lock_exclusive blocks while another open file holds a lock
\* on the same inode.
FLock(w) ==
    /\ wr[w].pc = "flock"
    /\ \A x \in Writers \ {w} : ~(HoldsX(x) /\ wr[x].fd = wr[w].fd)
    /\ \A r \in Readers : ~(HoldsS(r) /\ rd[r].fd = wr[w].fd)
    /\ wr' = [wr EXCEPT ![w].pc = IF wr[w].data = <<>> THEN "verify"
                                  ELSE "write"]
    /\ UNCHANGED <<ctor, omne, fit, sweep, links, dir, fs, ino, age, limit, permits, rd, puts, stored, last,
                   calls, opens, ticks, faults>>

\* fs.rs:490-496: the payload reaches the file a piece at a time, at the
\* offset of the open file.  err: "Ok" or the error kind of a failed write.
WriteChunk(w, err) ==
    /\ wr[w].pc = "write"
    /\ IF err = "Ok"
       THEN /\ wr' = [wr EXCEPT ![w].pos = wr[w].pos + 1,
                        ![w].pc = IF wr[w].pos + 1 = Len(wr[w].data)
                                  THEN "verify" ELSE "write"]
            /\ Commit(fs,
                      [ino EXCEPT ![wr[w].fd] =
                         WriteAt(@, wr[w].pos, wr[w].data[wr[w].pos + 1])],
                      {})
            /\ UNCHANGED <<permits, last, stored, faults, links>>
       ELSE /\ faults < MaxFaults
            /\ faults' = faults + 1
            /\ AttemptFail(w, [wr[w] EXCEPT !.flt = TRUE], err, fs, ino)
    /\ UNCHANGED <<ctor, omne, fit, sweep, dir, limit, rd, puts, calls, opens, ticks>>

\* fs.rs:510-532: the outcome of the integrity check of what was read back.
VerifyWritten(written, data) ==
    IF Len(written) # Len(data) THEN "Other"
    ELSE IF Hash(written) # Hash(data) THEN "Other"
    ELSE "Ok"

\* fs.rs:498-532: unlock, sync, read the temp path back and compare.
Verify(w) ==
    /\ wr[w].pc = "verify"
    /\ LET tmp == temp_path(wr[w].key)
           r   == IF ~Exists(fs, tmp) THEN "NotFound"
                  ELSE VerifyWritten(ino[fs[tmp]], wr[w].data)
       IN  IF r = "Ok"
           THEN /\ wr' = [wr EXCEPT ![w].pc = "rename"]
                /\ SameFs
                /\ UNCHANGED <<permits, last, stored, links>>
           ELSE AttemptFail(w, wr[w], r, fs, ino)
    /\ UNCHANGED <<ctor, omne, fit, sweep, dir, limit, rd, puts, calls, opens, ticks, faults>>

\* A rename that unlinks the source and never links the destination.
RenamedNowhere(f, from, to) == Remove(f, from)

\* std::fs::rename of the entry from onto the entry to.
Renamed(f, from, to) == Bind(Remove(f, from), to, f[from])

\* fs.rs:534-588: the rename onto the final path (temp and final path are
\* entries of one directory, so the cross-device fallback is never taken),
\* the best-effort directory sync, and on success the guard is forgotten
\* with the permit in it.
Rename(w) ==
    /\ wr[w].pc = "rename"
    /\ LET tmp == temp_path(wr[w].key)
           key == wr[w].key
           \* rename moves the entry at the temp path, file or link
           l   == IF IsLink(links, tmp)
                  THEN [n \in (DOMAIN links \ {tmp}) \cup {key} |->
                          IF n = key THEN links[tmp] ELSE links[n]]
                  ELSE Unlinked(links, {key})
           f   == IF Exists(fs, tmp) THEN Renamed(fs, tmp, key)
                  ELSE Remove(fs, key)
       IN  IF HasEntry(fs, links, tmp)
           THEN /\ wr' = [wr EXCEPT ![w].pc = "unlink", ![w].fd = 0,
                                    ![w].permit = FALSE]
                /\ Commit(Resolve(f, l), ino, {key})
                /\ links' = l
                /\ UNCHANGED <<permits, last, stored>>
           ELSE AttemptFail(w, wr[w], "NotFound", fs, ino)
    /\ UNCHANGED <<ctor, omne, fit, sweep, dir, limit, rd, puts, calls, opens, ticks, faults>>

\* fs.rs:589-591: the lock file is removed and put returns, Ok or with the
\* error of remove_file.
Unlink(w) ==
    /\ wr[w].pc = "unlink"
    /\ LET lock == key_lock_path(wr[w].key)
       IN  /\ Returned(w, wr[w], IF Exists(fs, lock) THEN "Ok" ELSE "NotFound")
           /\ Commit(Remove(fs, lock), ino, {})
    /\ UNCHANGED <<ctor, omne, fit, sweep, links, dir, limit, permits, rd, puts, calls, opens, ticks, faults>>

\* fs.rs:356-359, 644-647: five seconds after the blocking task started,
\* put returns TimedOut; the task is not cancelled and runs on.
PutTimeout(w) ==
    /\ wr[w].pc # "idle"
    /\ ~wr[w].det
    /\ faults < MaxFaults
    /\ faults' = faults + 1
    /\ wr' = [wr EXCEPT ![w].det = TRUE]
    /\ last' = PutResult([wr[w] EXCEPT !.flt = TRUE], "TimedOut")
    /\ UNCHANGED <<ctor, omne, fit, sweep, links, dir, fs, ino, age, limit, permits,
                   rd, puts, stored, calls, opens, ticks>>

\* The environment: another process makes the temp path of key a symbolic
\* link to the name target (the path put tests at fs.rs:363-366).
PlantLink(key, target) ==
    /\ ~HasEntry(fs, links, temp_path(key))
    /\ ~IsLink(links, target)
    /\ faults < MaxFaults
    /\ faults' = faults + 1
    /\ links' = [n \in DOMAIN links \cup {temp_path(key)} |->
                   IF n = temp_path(key) THEN target ELSE links[n]]
    /\ CommitWith(Resolve(fs, links'), ino, {}, wr, rd)
    /\ UNCHANGED <<ctor, omne, fit, sweep, dir, limit, permits, wr, rd, puts,
                   stored, last, calls, opens, ticks>>

(***************************************************************************)
(* get, fs.rs:69-115.                                                      *)
(***************************************************************************)
\* A mutant of ReturnedR: a call that an I/O fault hit reports an error.
ReturnedErr(r, me, res, val) ==
    /\ rd' = [rd EXCEPT ![r] = IdleR]
    /\ last' = [op |-> "get", key |-> me.key,
                res |-> IF me.flt THEN "Err" ELSE res, val |-> val,
                flt |-> me.flt, prev |-> me.prev]

\* Reader r, its record being me, returns res ("Some" with val, or "None").
ReturnedR(r, me, res, val) ==
    /\ rd' = [rd EXCEPT ![r] = IdleR]
    /\ last' = [op |-> "get", key |-> me.key, res |-> res, val |-> val,
                flt |-> me.flt, prev |-> me.prev]

\* fs.rs:69-78: validation and the exists check.
GetStart(r, k) ==
    /\ rd[r].pc = "idle"
    /\ calls' = calls + 1
    /\ LET me == [IdleR EXCEPT !.key = k, !.prev = last]
       IN  IF validate_key(k) # "Ok" \/ dir = "absent" \/ ~Exists(fs, k)
           THEN ReturnedR(r, me, "None", <<>>)
           ELSE /\ rd' = [rd EXCEPT ![r] = [me EXCEPT !.pc = "open"]]
                /\ last' = NoCall
    /\ UNCHANGED <<ctor, omne, fit, sweep, links, dir, fs, ino, age, limit, permits, wr, puts, stored,
                   opens, ticks, faults>>

\* fs.rs:84-87: File::open of the entry; err is "Ok" or an error kind.
GetOpen(r, err) ==
    /\ rd[r].pc = "open"
    /\ IF err # "Ok"
       THEN /\ faults < MaxFaults
            /\ faults' = faults + 1
            /\ ReturnedR(r, [rd[r] EXCEPT !.flt = TRUE], "None", <<>>)
       ELSE /\ UNCHANGED faults
            /\ IF Exists(fs, rd[r].key)
               THEN /\ rd' = [rd EXCEPT ![r].pc = "lock_shared",
                                        ![r].fd = fs[rd[r].key]]
                    /\ UNCHANGED last
               ELSE ReturnedR(r, rd[r], "None", <<>>)
    /\ UNCHANGED <<ctor, omne, fit, sweep, links, dir, fs, ino, age, limit, permits, wr, puts, stored,
                   calls, opens, ticks>>

\* fs.rs:90-101: lock_shared blocks while a writer holds the exclusive
\* lock of the inode.
GetLockShared(r) ==
    /\ rd[r].pc = "lock_shared"
    /\ \A x \in Writers : ~(HoldsX(x) /\ wr[x].fd = rd[r].fd)
    /\ rd' = [rd EXCEPT ![r].pc = "read"]
    /\ UNCHANGED <<ctor, omne, fit, sweep, links, dir, fs, ino, age, limit, permits, wr, puts, stored, last,
                   calls, opens, ticks, faults>>

\* A mutant of Close: closing the file removes the entry of the key.
CloseUnlinks(r) == CommitWith(Remove(fs, rd[r].key), ino, {}, wr, rd')

\* fs.rs:95-104: get drops its unlock guard and its File (rd' is set before
\* this is used); the entries stay, and an inode that no entry and no open
\* file refers to any more is gone.
Close(r) == CommitWith(fs, ino, {}, wr, rd')

\* fs.rs:103: std::fs::read of the path (not of the open file), then the
\* unlock guard is dropped and the file closed.
GetRead(r) ==
    /\ rd[r].pc = "read"
    /\ IF Exists(fs, rd[r].key)
       THEN ReturnedR(r, rd[r], "Some", ino[fs[rd[r].key]])
       ELSE ReturnedR(r, rd[r], "None", <<>>)
    /\ Close(r)
    /\ UNCHANGED <<ctor, omne, fit, sweep, links, dir, limit, permits, wr, puts, stored, calls, opens,
                   ticks, faults>>

\* fs.rs:90-92: lock_shared fails; the file is closed and get returns None.
GetLockSharedFail(r) ==
    /\ rd[r].pc = "lock_shared"
    /\ faults < MaxFaults
    /\ faults' = faults + 1
    /\ ReturnedR(r, [rd[r] EXCEPT !.flt = TRUE], "None", <<>>)
    /\ Close(r)
    /\ UNCHANGED <<ctor, omne, fit, sweep, links, dir, limit, permits, wr, puts, stored, calls, opens,
                   ticks>>

\* fs.rs:103: std::fs::read fails and .ok() turns the error into None.
GetReadFail(r) ==
    /\ rd[r].pc = "read"
    /\ faults < MaxFaults
    /\ faults' = faults + 1
    /\ ReturnedR(r, [rd[r] EXCEPT !.flt = TRUE], "None", <<>>)
    /\ Close(r)
    /\ UNCHANGED <<ctor, omne, fit, sweep, links, dir, limit, permits, wr, puts, stored, calls, opens,
                   ticks>>

\* fs.rs:81-82, 108-113: the 5 s of tokio::time::timeout pass, or the
\* blocking task cannot be joined, before the task has returned: get
\* returns None.  (The abandoned task goes on to take and release its shared
\* lock and changes nothing; it is taken to end here.)
GetTimeout(r) ==
    /\ rd[r].pc \in {"open", "lock_shared", "read"}
    /\ faults < MaxFaults
    /\ faults' = faults + 1
    /\ ReturnedR(r, [rd[r] EXCEPT !.flt = TRUE], "None", <<>>)
    /\ Close(r)
    /\ UNCHANGED <<ctor, omne, fit, sweep, links, dir, limit, permits, wr, puts, stored, calls, opens,
                   ticks>>

(***************************************************************************)
(* write (the read-write constructor), fs.rs:301-331, and start-up         *)
(* recovery, fs.rs:170-236.                                                *)
(***************************************************************************)
\* A staleness test that takes a lock of exactly 300 s for stale.
StaleFromFiveMinutes(ticksOld) == ticksOld * TickSecs >= STALE_LOCK_SECS

\* fs.rs:223-236: elapsed > 300 s.
is_lock_file_stale(ticksOld) == ticksOld * TickSecs > STALE_LOCK_SECS

\* fs.rs:180-207: the entries cleanup_temp_files leaves.
cleanup_temp_files(f, a) ==
    [n \in {m \in DOMAIN f :
              /\ ~ends_with(m, TmpExt)
              /\ ~(ends_with(m, LockExt) /\ is_lock_file_stale(a[m]))}
       |-> f[n]]

\* fs.rs:180-207 on the links: remove_file of every name ending in .tmp.
cleanup_links(l) == Unlinked(l, {n \in DOMAIN l : ends_with(n, TmpExt)})

Min(a, b) == IF a <= b THEN a ELSE b

\* A mutant of initial_permits: write leaves every permit available.
AllPermits(count, lim) == lim

\* fs.rs:303, 319-327: the permits left of Semaphore::new(limit) after the
\* entries found are accounted for.
initial_permits(count, lim) ==
    IF lim > 0 THEN lim - Min(count, lim) ELSE lim

\* The process restarts: the calls in flight are gone with the old
\* semaphore, and write opens the root again with limit lim.
Reopen(lim) ==
    /\ opens < MaxOpens
    /\ opens' = opens + 1
    /\ dir # "absent"
    /\ wr' = [w \in Writers |-> IdleW]
    /\ rd' = [r \in Readers |-> IdleR]
    /\ last' = NoCall
    /\ limit' = lim
    /\ LET f == cleanup_temp_files(fs, age)
           l == cleanup_links(links)
       IN  /\ CommitWith(f, ino, {}, wr', rd')
           /\ links' = l
           /\ permits' = initial_permits(Cardinality(DOMAIN f \cup DOMAIN l),
                                         lim)
           /\ fit' = (Cardinality(LiveEntries(f)) <= lim)
           /\ sweep' = [tmp   |-> \E n \in DOMAIN fs \ DOMAIN f :
                                     ends_with(n, TmpExt),
                        stale |-> \E n \in DOMAIN fs \ DOMAIN f :
                                     ends_with(n, LockExt),
                        fresh |-> \E n \in DOMAIN f : ends_with(n, LockExt),
                        full  |-> /\ lim > 0
                                  /\ Cardinality(DOMAIN f \cup DOMAIN l) >= lim]
    /\ UNCHANGED <<ctor, omne, dir, puts, stored, calls, ticks, faults>>

\* Time passes.
Tick ==
    /\ ticks < MaxTicks
    /\ DOMAIN age # {}
    /\ ticks' = ticks + 1
    /\ age' = [n \in DOMAIN age |-> age[n] + 1]
    /\ UNCHANGED <<ctor, omne, fit, sweep, links, dir, fs, ino, limit, permits, wr, rd, puts, stored, last,
                   calls, opens, faults>>

(***************************************************************************)
(* The constructors: FsCache<Read>::read, fs.rs:128-153, and                *)
(* FsCache<ReadWrite>::write on a path that may be absent, fs.rs:301-331,  *)
(* with create_dir, fs.rs:238-299, a system call at a time.                *)
(***************************************************************************)
\* The marker create_dir opens inside the root, fs.rs:248.
DirLock ==
    <<".", "d", "i", "r", "e", "c", "t", "o", "r", "y", ".", "l", "o", "c", "k">>

\* What a step of a constructor leaves alone.
CtorOnly ==
    UNCHANGED <<omne, fit, sweep, limit, permits, wr, rd, puts, stored, last,
                calls, opens, ticks>>

\* The filesystem after a step of a constructor (ctor' is set before this
\* is used): as CommitWith, the open markers of the constructors kept.
CommitCtor(f, i, fresh) ==
    /\ fs' = f
    /\ ino' = [x \in DOMAIN i \cap
                     (Live(f, wr, rd) \cup {ctor'[c].fd : c \in Constructors})
                 |-> i[x]]
    /\ age' = [n \in {m \in DOMAIN f : ends_with(m, LockExt)} |->
                 IF n \in DOMAIN age /\ n \notin fresh THEN age[n] ELSE 0]

\* Constructor c returns r.
Done(c, r) == [ctor[c] EXCEPT !.pc = "done", !.fd = 0, !.res = r]

\* A mutant of readonly: every existing path passes for read-only.
AlwaysReadonly(d) == TRUE

\* fs.rs:134-136: fh.metadata()?.permissions().readonly().
readonly(d) == d = "ro"

\* The positions of read at which it holds an advisory lock on the path:
\* none, read calls no locking function (fs.rs:128-153).
HoldsPathLock(c) == ctor[c].pc \in {}

\* fs.rs:129-132, 147-152: path.exists() and File::open(&path).
ReadStart(c) ==
    /\ ctor[c].pc = "idle"
    /\ ctor' = [ctor EXCEPT ![c] =
                  IF dir = "absent"
                  THEN [IdleC EXCEPT !.pc = "done", !.kind = "read",
                                     !.abs0 = TRUE, !.res = "NotFound"]
                  ELSE [IdleC EXCEPT !.pc = "ro_check", !.kind = "read"]]
    /\ UNCHANGED <<dir, fs, ino, age, faults>>
    /\ UNCHANGED links
    /\ CtorOnly

\* fs.rs:134-146: the permissions are read and checked, read returns.
ReadCheck(c) ==
    /\ ctor[c].pc = "ro_check"
    /\ ctor' = [ctor EXCEPT ![c] =
                  Done(c, IF readonly(dir) THEN "Ok" ELSE "PermissionDenied")]
    /\ UNCHANGED <<dir, fs, ino, age, faults>>
    /\ UNCHANGED links
    /\ CtorOnly

\* fs.rs:301-330: write.  On an existing path it cleans up and returns the
\* store; on an absent one it calls create_dir.
WriteStart(c) ==
    /\ ctor[c].pc = "idle"
    /\ IF dir = "absent"
       THEN /\ ctor' = [ctor EXCEPT ![c] =
                          [IdleC EXCEPT !.pc = "cd_exists", !.kind = "write",
                                        !.abs0 = TRUE]]
            /\ UNCHANGED <<fs, ino, age, links>>
       ELSE /\ ctor' = [ctor EXCEPT ![c] =
                          [IdleC EXCEPT !.pc = "done", !.kind = "write",
                                        !.res = "Ok"]]
            /\ CommitCtor(cleanup_temp_files(fs, age), ino, {})
            /\ links' = cleanup_links(links)
    /\ UNCHANGED <<dir, faults>>
    /\ CtorOnly

\* fs.rs:240-242: create_dir returns Ok when the path exists by now.
CdExists(c) ==
    /\ ctor[c].pc = "cd_exists"
    /\ ctor' = [ctor EXCEPT ![c] =
                  IF dir # "absent" THEN Done(c, "Ok")
                  ELSE [ctor[c] EXCEPT !.pc = "cd_open"]]
    /\ UNCHANGED <<dir, fs, ino, age, faults>>
    /\ UNCHANGED links
    /\ CtorOnly

\* fs.rs:248-264: the marker <path>/.directory.lock is opened with create
\* and truncate; the open fails while the path is absent (NotFound) or
\* read-only (PermissionDenied).
CdOpen(c) ==
    /\ ctor[c].pc = "cd_open"
    /\ IF dir # "rw"
       THEN /\ ctor' = [ctor EXCEPT ![c] =
                          Done(c, IF dir = "absent" THEN "NotFound"
                                  ELSE "PermissionDenied")]
            /\ UNCHANGED <<fs, ino, age>>
       ELSE LET id == IF Exists(fs, DirLock) THEN fs[DirLock] ELSE NewIno
            IN  /\ ctor' = [ctor EXCEPT ![c].pc = "cd_lock", ![c].fd = id]
                /\ CommitCtor(Bind(fs, DirLock, id),
                              [x \in DOMAIN ino \cup {id} |->
                                 IF x = id THEN <<>> ELSE ino[x]],
                              {DirLock})
    /\ UNCHANGED <<dir, faults>>
    /\ UNCHANGED links
    /\ CtorOnly

\* Between try_lock_exclusive and unlock, fs.rs:267-293.
HoldsMarker(c) == ctor[c].pc \in {"cd_mkdir", "cd_unlock"}

\* fs.rs:267-274: try_lock_exclusive; when another creator holds the lock
\* the marker is removed and create_dir returns WouldBlock.
CdTryLock(c) ==
    /\ ctor[c].pc = "cd_lock"
    /\ IF \E o \in Constructors \ {c} :
              HoldsMarker(o) /\ ctor[o].fd = ctor[c].fd
       THEN /\ ctor' = [ctor EXCEPT ![c] = Done(c, "WouldBlock")]
            /\ CommitCtor(Remove(fs, DirLock), ino, {})
       ELSE /\ ctor' = [ctor EXCEPT ![c].pc = "cd_mkdir"]
            /\ UNCHANGED <<fs, ino, age>>
    /\ UNCHANGED <<dir, faults>>
    /\ UNCHANGED links
    /\ CtorOnly

\* fs.rs:277-290: DirBuilder::create with recursive(true) and mode 0700;
\* an existing directory is a success.
CdMkdir(c) ==
    /\ ctor[c].pc = "cd_mkdir"
    /\ ctor' = [ctor EXCEPT ![c].pc = "cd_unlock"]
    /\ dir' = IF dir = "absent" THEN "rw" ELSE dir
    /\ UNCHANGED <<fs, ino, age, faults>>
    /\ UNCHANGED links
    /\ CtorOnly

\* fs.rs:292-296: unlock, the marker is removed, create_dir returns.
CdUnlock(c) ==
    /\ ctor[c].pc = "cd_unlock"
    /\ ctor' = [ctor EXCEPT ![c] = Done(c, "Ok")]
    /\ CommitCtor(Remove(fs, DirLock), ino, {})
    /\ UNCHANGED <<dir, faults>>
    /\ UNCHANGED links
    /\ CtorOnly

\* The environment: some other process creates the directory.
MkdirByOther ==
    /\ dir = "absent"
    /\ faults < MaxFaults
    /\ faults' = faults + 1
    /\ dir' = "rw"
    /\ UNCHANGED <<ctor, fs, ino, age>>
    /\ UNCHANGED links
    /\ CtorOnly

(***************************************************************************)
(* OmneCache, lib.rs: the LRU cache in memory, the read-only sideload      *)
(* directory and the disk store, consulted in this order by get.           *)
(***************************************************************************)
MaxItems == 2       \* capacity of the LRU cache
MaxPuts == 2        \* calls of OmneCache::put in one behaviour

Tiers == {"memory", "sideload", "disk"}

\* LruCache: the entries, most recently used first.
LruHas(m, k) == \E j \in DOMAIN m : m[j].k = k

LruWithout(m, k) == SelectSeq(m, LAMBDA e : e.k # k)

\* LruCache::get (lib.rs:192): the value, and the entry becomes the most
\* recently used one.
LruValue(m, k) == m[CHOOSE j \in DOMAIN m : m[j].k = k].v

LruGet(m, k) == <<[k |-> k, v |-> LruValue(m, k)]>> \o LruWithout(m, k)

\* A mutant of LruPut: the entry put is the only one kept.
LruPutAlone(m, cap, k, v) == <<[k |-> k, v |-> v]>>

\* LruCache::put (lib.rs:201, 212): the entry becomes the most recently
\* used one and the least recently used one leaves a full cache.
LruPut(m, cap, k, v) ==
    LET all == <<[k |-> k, v |-> v]>> \o LruWithout(m, k)
    IN  IF Len(all) > cap THEN SubSeq(all, 1, cap) ELSE all

\* FsCache::get (fs.rs:69-115) on a directory no put is running in, as an
\* Option: the content of the entry of a valid key, and None for an
\* invalid key, a missing entry and a failed system call.
fs_get(entries, key, fail) ==
    IF validate_key(key) = "Ok" /\ key \in DOMAIN entries /\ ~fail
    THEN <<entries[key]>>
    ELSE <<>>

\* The entries of the disk store, by name.
DiskEntries == [n \in DOMAIN fs |-> ino[fs[n]]]

\* A mutant of first_hit: the disk is asked before the sideload.
DiskBeforeSideload(inmem, sres, dres) ==
    IF inmem THEN "memory"
    ELSE IF dres # <<>> THEN "disk"
    ELSE IF sres # <<>> THEN "sideload"
    ELSE "none"

\* lib.rs:191-220: the tier whose value get returns.
first_hit(inmem, sres, dres) ==
    IF inmem THEN "memory"
    ELSE IF sres # <<>> THEN "sideload"
    ELSE IF dres # <<>> THEN "disk"
    ELSE "none"

\* A mutant of Promote: get leaves the memory tier alone.
NoPromote(o, key, val) == o.mem

\* lib.rs:200-202, 211-213: if let Some(memory) { memory.put(key, data) }.
Promote(o, key, val) ==
    IF "memory" \in o.on THEN LruPut(o.mem, o.cap, key, val) ELSE o.mem

\* lib.rs:187-222: OmneCache::get(entry) for an entry of the type whose
\* PREFIX is prefix.  sf and df make the get of the
\* sideload and of the disk directory fail where it would have found the
\* entry.  The value is the bytes handed
\* to C::Value::try_from.
OmneGetAs(prefix, ukey, sf, df) ==
    LET key   == build_key(prefix, ukey)
        o     == omne
        inmem == "memory" \in o.on /\ LruHas(o.mem, key)
        sres  == IF "sideload" \in o.on THEN fs_get(o.side, key, sf)
                 ELSE <<>>
        dres  == IF "disk" \in o.on THEN fs_get(DiskEntries, key, df)
                 ELSE <<>>
        hit   == first_hit(inmem, sres, dres)
        val   == CASE hit = "memory" -> LruValue(o.mem, key)
                   [] hit = "sideload" -> sres[1]
                   [] hit = "disk" -> dres[1]
                   [] OTHER -> <<>>
        seen  == (IF "memory" \in o.on THEN <<"memory">> ELSE <<>>)
                 \o (IF hit # "memory" /\ "sideload" \in o.on
                     THEN <<"sideload">> ELSE <<>>)
                 \o (IF hit \notin {"memory", "sideload"} /\ "disk" \in o.on
                     THEN <<"disk">> ELSE <<>>)
    IN  /\ o.cap > 0
        /\ ~(o.op = "put_disk")
        /\ sf => "sideload" \in o.on /\ key \in DOMAIN o.side
        /\ df => "disk" \in o.on /\ key \in DOMAIN fs
        /\ (sf \/ df) => faults < MaxFaults
        /\ faults' = IF sf \/ df THEN faults + 1 ELSE faults
        /\ omne' = [o EXCEPT
                      !.op = "get",
                      !.key = key,
                      !.held = {t \in o.on :
                                  \/ t = "memory"
                                     /\ \E j \in DOMAIN o.mem : o.mem[j].k = key
                                  \/ t = "sideload" /\ key \in DOMAIN o.side
                                  \/ t = "disk" /\ key \in DOMAIN fs},
                      !.seen = seen,
                      !.hit = hit,
                      !.res = IF hit = "none" THEN "NotFound" ELSE "Ok",
                      !.val = val,
                      !.flt = sf \/ df,
                      !.mem = CASE hit = "memory" -> LruGet(o.mem, key)
                                [] hit = "none" -> o.mem
                                [] OTHER -> Promote(o, key, val),
                      !.prev = [key |-> o.key, hit |-> o.hit, val |-> o.val,
                                op |-> o.op, res |-> o.res]]
        /\ UNCHANGED <<ctor, fit, sweep, links, dir, fs, ino, age, limit, permits,
                       wr, rd, puts, stored, last, calls, opens, ticks>>

\* The keys of the entries of the LRU cache.
LruKeys(m) == {m[j].k : j \in DOMAIN m}

\* A call of OmneCache::put is waiting for disk.put to return.
InPut == omne.op = "put_disk"

\* A mutant of PutReturned: a put that returns an error takes its value out
\* of the memory tier again.
PutRolledBack(o, r) ==
    [o EXCEPT !.op = "put",
              !.res = r,
              !.mem = IF r = "Ok" THEN @ ELSE LruWithout(@, o.key),
              !.wrote = IF r = "Ok"
                        THEN [k \in DOMAIN o.wrote \cup {o.key} |->
                                IF k = o.key THEN o.val ELSE o.wrote[k]]
                        ELSE o.wrote]

\* The record of a put that has returned r.
PutReturned(o, r) ==
    [o EXCEPT !.op = "put",
              !.res = r,
              !.wrote = IF r = "Ok"
                        THEN [k \in DOMAIN o.wrote \cup {o.key} |->
                                IF k = o.key THEN o.val ELSE o.wrote[k]]
                        ELSE o.wrote]

\* A mutant of MemoryPut: put leaves the memory tier alone.
NoMemoryPut(o, key, val) == o.mem

\* lib.rs:230-231: if let Some(memory) { memory.put(key, value.to_vec()) }.
MemoryPut(o, key, val) ==
    IF "memory" \in o.on THEN LruPut(o.mem, o.cap, key, val) ELSE o.mem

\* lib.rs:224-254: OmneCache::put(entry, value), for an entry of the type
\* whose PREFIX is prefix, up to its call of disk.put, or to its return when
\* the disk tier is not enabled.
OmnePutStartAs(prefix, ukey, v) ==
    LET key == build_key(prefix, ukey)
        o   == [omne EXCEPT !.key = key, !.val = v, !.flt = FALSE,
                            !.owner = [k \in DOMAIN omne.owner \cup {key} |->
                                         (IF k \in DOMAIN omne.owner
                                          THEN omne.owner[k] ELSE {})
                                         \cup (IF k = key THEN {prefix}
                                               ELSE {})],
                            !.held = {}, !.seen = <<>>, !.hit = "none",
                            !.prev = NoGet,
                            !.m0 = LruKeys(omne.mem),
                            !.mem = MemoryPut(omne, key, v)]
    IN  /\ omne.cap > 0
        /\ ~InPut
        /\ calls < MaxPuts
        /\ IF "disk" \in o.on
           THEN /\ omne' = [o EXCEPT !.op = "put_disk", !.res = "none"]
                /\ last' = [op |-> "omne"]
                /\ UNCHANGED calls
           ELSE /\ omne' = PutReturned(o, IF "memory" \in o.on THEN "Ok"
                                          ELSE "Other")
                /\ calls' = calls + 1
                /\ UNCHANGED last
        /\ UNCHANGED <<ctor, fit, sweep, links, dir, fs, ino, age, limit, permits,
                       wr, rd, puts, stored, opens, ticks, faults>>

\* OmneCache::put for an entry of the type with the prefix PREFIX.
OmnePutStart(ukey, v) == OmnePutStartAs(PREFIX, ukey, v)

\* OmneCache::get for an entry of the type with the prefix PREFIX.
OmneGet(ukey, sf, df) == OmneGetAs(PREFIX, ukey, sf, df)

\* lib.rs:240, 248: disk.put(&key, value) is called.
OmneDiskPut(w) ==
    /\ InPut
    /\ last.op = "omne"
    /\ PutStart(w, omne.key, omne.val)

\* lib.rs:240-243, 248: disk.put has returned; its error is the error of
\* put.
OmnePutDone ==
    /\ InPut
    /\ last.op = "put"
    /\ omne' = PutReturned(omne, last.res)
    /\ UNCHANGED <<ctor, fit, sweep, links, dir, fs, ino, age, limit, permits,
                   wr, rd, puts, stored, last, calls, opens, ticks, faults>>

(***************************************************************************)
(* Specifications.                                                         *)
(***************************************************************************)
\* What a start-up recovery did: it removed a temp file, it removed a stale
\* lock file, it left a lock file in place; and whether it left as many
\* entries as the limit, or more (full).
NoSweep == [tmp |-> FALSE, stale |-> FALSE, fresh |-> FALSE, full |-> FALSE]

\* write(path, lim) has returned a store on an existing writable root that
\* holds the complete entries of the keys in have, left by earlier runs;
\* since then the root has stayed as it was (d = "rw"), was made read-only
\* ("ro") or was removed ("absent", have being empty).
InitBase(d, have) ==
    /\ dir = d
    /\ fs = CHOOSE f \in [have -> 1..Cardinality(have)] :
                 \A k1, k2 \in have : f[k1] = f[k2] => k1 = k2
    /\ ino = [i \in 1..Cardinality(have) |-> D1]
    /\ age = [n \in {m \in have : ends_with(m, LockExt)} |-> 0]
    /\ limit \in 0..MaxLimit
    /\ permits = initial_permits(Cardinality(have), limit)
    /\ wr = [w \in Writers |-> IdleW]
    /\ rd = [r \in Readers |-> IdleR]
    /\ puts = [k \in AllKeys |-> IF k \in have THEN {D1} ELSE {}]
    /\ stored = have
    /\ last = NoCall
    /\ fit = (Cardinality(LiveEntries(fs)) <= limit)
    /\ sweep = [NoSweep EXCEPT
                  !.full = limit > 0 /\ Cardinality(have) >= limit]
    /\ links = <<>>
    /\ calls = 0
    /\ opens = 0
    /\ ticks = 0
    /\ faults = 0
    /\ ctor = [c \in Constructors |-> IdleC]

\* No OmneCache is in use.
InitAt(d, have) ==
    /\ InitBase(d, have)
    /\ omne = NoOmne

\* write(path, lim) has returned a store on an existing writable root that
\* holds the complete entries of the keys in have.
InitWith(have) == InitAt("rw", have)

\* write on an existing, empty, writable root.
InitEmpty == InitWith({})

Quiet ==
    /\ \A w \in Writers : wr[w].pc = "idle"
    /\ \A r \in Readers : rd[r].pc = "idle"

\* A step of a put call in flight; errs are the error kinds the
\* environment may inject into the system calls of an attempt.
WriterStep(w, errs) ==
    \/ CreateLock(w)
    \/ \E nospace \in (IF errs = {} THEN {FALSE} ELSE BOOLEAN) :
          Admit(w, nospace)
    \/ \E err \in {"Ok"} \cup errs : OpenTemp(w, err)
    \/ FLock(w)
    \/ \E err \in {"Ok"} \cup (errs \ Permanent) : WriteChunk(w, err)
    \/ Verify(w)
    \/ Rename(w)
    \/ Unlink(w)

\* A step of a get call in flight.
ReaderStep(r, errs) ==
    \/ \E err \in {"Ok"} \cup (errs \ Permanent) : GetOpen(r, err)
    \/ GetLockShared(r)
    \/ GetRead(r)

IoErrors == {"Other", "PermissionDenied"}

\* One call at a time, with injected I/O errors, restarts and the passing
\* of time.
NextSeq ==
    \/ /\ Quiet
       /\ calls < MaxCalls
       /\ \E k \in Keys, d \in Payloads : PutStart(1, k, d)
    \/ /\ Quiet
       /\ calls < MaxCalls
       /\ \E r \in Readers, k \in Keys : GetStart(r, k)
    \/ \E w \in Writers : WriterStep(w, IoErrors)
    \/ \E r \in Readers : ReaderStep(r, IoErrors)
    \/ \E lim \in 0..MaxLimit : Reopen(lim)
    \/ Quiet /\ Tick

SpecSeq == InitEmpty /\ [][NextSeq]_vars

\* Concurrent calls on a working filesystem.
ConcKeys == {KeyA, KeyB}

\* Writer 1 puts D1 and writer 2 puts D2.
PayloadOf == <<D1, D2>>

\* write on a root that holds none, one or both of the keys.
Init == \E have \in {{}, {KeyA}, {KeyA, KeyB}} : InitWith(have)

Next ==
    \/ /\ calls < MaxConcCalls
       /\ \E w \in Writers, k \in ConcKeys : PutStart(w, k, PayloadOf[w])
    \/ /\ calls < MaxConcCalls
       /\ \E r \in Readers, k \in ConcKeys : GetStart(r, k)
    \/ \E w \in Writers : WriterStep(w, {})
    \/ \E r \in Readers : ReaderStep(r, {})

Spec == Init /\ [][Next]_vars

\* Two put calls on one key, D1 by writer 1 and D2 by writer 2, on a
\* working filesystem.
Next2W ==
    \/ \E w \in Writers :
          /\ PayloadOf[w] \notin puts[KeyA]
          /\ PutStart(w, KeyA, PayloadOf[w])
    \/ \E w \in Writers : WriterStep(w, {})

Spec2W == InitEmpty /\ [][Next2W]_vars

(***************************************************************************)
(* The claims.                                                             *)
(***************************************************************************)
\* Writer w is between the creation of its key's lock file and the removal
\* of it.
InLoop(w) ==
    wr[w].pc \in {"admit", "open", "flock", "write", "verify", "rename",
                  "unlink"}

\* C1: when put(k, d) has returned Ok and the next call, with no other call
\* or restart in between, is get(k), and no I/O fault is injected into that
\* get, then the get returns Some(d).
RoundTrip ==
    (/\ last.op = "get" /\ ~last.flt
     /\ last.prev.op = "put" /\ last.prev.res = "Ok"
     /\ last.prev.key = last.key)
    => (last.res = "Some" /\ last.val = last.prev.data)

\* A get of the key "a..tmp" has returned the D2 that the put before it
\* stored.
RoundTripWitness ==
    /\ last.op = "get" /\ last.key = KeyATmp
    /\ last.prev.op = "put" /\ last.prev.res = "Ok" /\ last.prev.key = KeyATmp
    /\ last.res = "Some" /\ last.val = D2

\* C2: the content of the entry of every key, and every value a get
\* returns, is a complete payload put was called with for that key or the
\* complete content the key had before.
AtomicVisibility ==
    /\ \A k \in ConcKeys : Exists(fs, k) => ino[fs[k]] \in puts[k]
    /\ (last.op = "get" /\ last.res = "Some") => last.val \in puts[last.key]

\* C3: once the two concurrent put calls on the key have returned, the key
\* is stored and its content is D1 or D2 in full.
TwoWritersSerialize ==
    (calls = 2 /\ Quiet)
    => (Exists(fs, KeyA) /\ ino[fs[KeyA]] \in {D1, D2})

\* C4: no two put calls on one key are at the same time between the
\* creation of the key's lock file and the removal of it.
MutualExclusion ==
    \A w1, w2 \in Writers :
        (w1 # w2 /\ InLoop(w1) /\ InLoop(w2)) => wr[w1].key # wr[w2].key

\* C5: on a store opened on an empty root with limit > 0, with one call at
\* a time and no injected fault, a put returns Ok when its key was stored
\* before or fewer than limit keys were, and StorageFull otherwise.
CapacityAdmission ==
    (last.op = "put" /\ opens = 0 /\ faults = 0 /\ limit > 0)
    => IF last.key \in last.s0 \/ Cardinality(last.s0) < limit
       THEN last.res = "Ok"
       ELSE last.res = "StorageFull"

\* C6, as claimed: with limit > 0 the live entries of the root are at most
\* limit in every state, and with limit = 0 no put that the free-space check
\* let pass returns StorageFull.
CapacityInvariant ==
    /\ limit > 0 => Cardinality(LiveEntries(fs)) <= limit
    /\ (limit = 0 /\ last.op = "put" /\ ~last.flt)
       => last.res # "StorageFull"

\* C6, amended: with limit > 0, when the root held at most limit live
\* entries as the store was opened, the live entries of the root are at
\* most limit in every state; and with limit = 0 no put that the free-space
\* check let pass returns StorageFull.
CapacityInvariantFit ==
    /\ (limit > 0 /\ fit) => Cardinality(LiveEntries(fs)) <= limit
    /\ (limit = 0 /\ last.op = "put" /\ ~last.flt)
       => last.res # "StorageFull"

\* The put of a key that is not stored was rejected with StorageFull by a
\* store that holds as many live entries as its limit allows.
CapacityInvariantWitness ==
    /\ limit > 0 /\ fit
    /\ Cardinality(LiveEntries(fs)) = limit
    /\ last.op = "put" /\ last.res = "StorageFull"
    /\ ~Exists(fs, last.key)

\* C7: a put that acquired a permit and returns an error without its key
\* being stored leaves as many permits available as there were when it
\* started.
TokenRelease ==
    (/\ last.op = "put" /\ last.acq /\ last.res # "Ok"
     /\ ~Exists(fs, last.key))
    => permits = last.p0

\* C8: on a store opened on an empty root with limit > 0, whenever no call
\* is in flight the permits consumed equal the number of live entries.
TokenAccounting ==
    (limit > 0 /\ opens = 0 /\ Quiet)
    => limit - permits = Cardinality(LiveEntries(fs))

\* C9: start-up recovery removes every entry named *.tmp and every entry
\* named *.lock that is more than 300 s old, and leaves every other entry,
\* the locks of 300 s or less among them, in place with its content.
Recovery ==
    [][opens' = opens + 1 =>
         \A n \in DOMAIN fs :
            IF ends_with(n, TmpExt) THEN ~Exists(fs', n)
            ELSE IF ends_with(n, LockExt)
                    /\ age[n] * TickSecs > STALE_LOCK_SECS
                 THEN ~Exists(fs', n)
            ELSE Exists(fs', n) /\ ino'[fs'[n]] = ino[fs[n]]]_vars

\* One recovery removed a temp file and a stale lock file and left a fresh
\* lock file in place.
RecoveryWitness == sweep.tmp /\ sweep.stale /\ sweep.fresh

\* C10: a restart with no call in flight leaves the entry of every key
\* that a put returned Ok for in place, with its content.
RecoveryKeepsLive ==
    [][(opens' = opens + 1 /\ Quiet) =>
         \A k \in stored :
            Exists(fs, k) => (Exists(fs', k) /\ ino'[fs'[k]] = ino[fs[k]])]_vars

\* One put call at a time on a working filesystem, the payload being empty
\* or D1.
EmptyOrNot == {<<>>, D1}

NextEmpty ==
    \/ /\ Quiet
       /\ calls < MaxCalls
       /\ \E k \in ConcKeys, d \in EmptyOrNot : PutStart(1, k, d)
    \/ \E w \in Writers : WriterStep(w, {})

SpecEmpty == InitEmpty /\ [][NextEmpty]_vars

\* C11: a put with an empty payload returns an error and leaves no lock
\* file, no temp file and no new entry for its key, and as many permits
\* available as there were when it started.
EmptyPayloadRejected ==
    (last.op = "put" /\ last.data = <<>>)
    => /\ last.res # "Ok"
       /\ ~Exists(fs, key_lock_path(last.key))
       /\ ~Exists(fs, temp_path(last.key))
       /\ last.key \notin last.s0 => ~Exists(fs, last.key)
       /\ permits = last.p0

\* One call at a time, with valid and invalid keys, on a root that is
\* writable, read-only or absent.
SomeKeys == InvalidKeys \cup {KeyA}

InitKeys ==
    \E d \in {"rw", "ro", "absent"}, have \in {{}, {KeyA}} :
        /\ d = "absent" => have = {}
        /\ InitAt(d, have)

NextKeys ==
    \/ /\ Quiet
       /\ calls < MaxCalls
       /\ \E k \in SomeKeys : PutStart(1, k, D1)
    \/ /\ Quiet
       /\ calls < MaxCalls
       /\ \E r \in Readers, k \in SomeKeys : GetStart(r, k)
    \/ \E w \in Writers : WriterStep(w, {})
    \/ \E r \in Readers : ReaderStep(r, {})

SpecKeys == InitKeys /\ [][NextKeys]_vars

\* C12: a call with an invalid key returns in the step that starts it, put
\* with InvalidInput and get with None, and that step leaves the root, its
\* entries and the permits as they were; no call with an invalid key is
\* ever in flight.
InvalidKeyRejected ==
    [][/\ \A w \in Writers :
             wr'[w].pc # "idle" => wr'[w].key \notin InvalidKeys
       /\ \A r \in Readers :
             rd'[r].pc # "idle" => rd'[r].key \notin InvalidKeys
       /\ (last'.op = "put" /\ last'.key \in InvalidKeys)
          => last'.res = "InvalidInput"
       /\ (last'.op = "get" /\ last'.key \in InvalidKeys)
          => last'.res = "None"
       /\ (calls' = calls + 1 /\ last'.op # "none"
           /\ last'.key \in InvalidKeys)
          => UNCHANGED <<dir, fs, ino, age, permits>>]_vars

\* A put with the key "a/b" on a store whose root is absent has returned
\* InvalidInput, and the root is still absent.
InvalidKeyRejectedWitness ==
    /\ last.op = "put" /\ last.key = KeySlash /\ last.res = "InvalidInput"
    /\ dir = "absent"

\* get calls, one at a time, with every failure get can meet, on a root
\* that is writable, read-only or absent.
ReaderFault(r) ==
    \/ GetLockSharedFail(r)
    \/ GetReadFail(r)
    \/ GetTimeout(r)

NextGet ==
    \/ /\ Quiet
       /\ calls < MaxCalls
       /\ \E r \in Readers, k \in SomeKeys : GetStart(r, k)
    \/ \E r \in Readers : ReaderStep(r, IoErrors)
    \/ \E r \in Readers : ReaderFault(r)

SpecGet == InitKeys /\ [][NextGet]_vars

\* C13: get returns Some or None, never an error; and it returns None when
\* its key is invalid, when the root or the entry is absent, and when the
\* open, the shared lock or the read failed or the 5 s ran out.
GetNeverErrs ==
    last.op = "get"
    => /\ last.res \in {"Some", "None"}
       /\ (\/ last.flt
           \/ last.key \in InvalidKeys
           \/ dir = "absent"
           \/ ~Exists(fs, last.key))
          => last.res = "None"

\* A get of the stored key a that a failure hit has returned None.
GetNeverErrsWitness ==
    /\ last.op = "get" /\ last.key = KeyA /\ Exists(fs, KeyA)
    /\ last.flt /\ last.res = "None"

\* The constructors, two callers, on a path that is writable, read-only or
\* absent; and get calls on the store a read has returned.
ConstructorStep(c) ==
    \/ ReadStart(c)
    \/ ReadCheck(c)
    \/ WriteStart(c)
    \/ CdExists(c)
    \/ CdOpen(c)
    \/ CdTryLock(c)
    \/ CdMkdir(c)
    \/ CdUnlock(c)

ReadStoreOpen ==
    \E c \in Constructors : ctor[c].kind = "read" /\ ctor[c].res = "Ok"

NextCtor ==
    \/ \E c \in Constructors : ConstructorStep(c)
    \/ MkdirByOther
    \/ /\ ReadStoreOpen
       /\ Quiet
       /\ calls < MaxCalls
       /\ \E r \in Readers, k \in ConcKeys : GetStart(r, k)
    \/ \E r \in Readers : ReaderStep(r, {})

SpecCtor == InitKeys /\ [][NextCtor]_vars

\* C14: read returns NotFound when the path is absent, PermissionDenied
\* when it exists and is not read-only, and a store otherwise; and a get on
\* that store returns the content of the entry of its key when there is one.
ReadOnlyConstruction ==
    /\ \A c \in Constructors :
          (ctor[c].kind = "read" /\ ctor[c].pc = "done")
          => ctor[c].res = (IF ctor[c].abs0 THEN "NotFound"
                            ELSE IF dir = "ro" THEN "Ok"
                            ELSE "PermissionDenied")
    /\ (last.op = "get" /\ Exists(fs, last.key))
       => (last.res = "Some" /\ last.val = ino[fs[last.key]])

\* read has returned a store on a read-only path and a get on it has
\* returned the content D1 of the key a.
ReadOnlyConstructionWitness ==
    /\ ReadStoreOpen
    /\ dir = "ro"
    /\ last.op = "get" /\ last.key = KeyA
    /\ last.res = "Some" /\ last.val = D1

\* C15: while read checks the permissions it holds an advisory lock on the
\* path, and it holds none once it has returned.
ReadHoldsSharedLock ==
    \A c \in Constructors :
        /\ ctor[c].pc = "ro_check" => HoldsPathLock(c)
        /\ ctor[c].pc = "done" => ~HoldsPathLock(c)

\* C16: write on a path that does not exist, no other process creating it,
\* returns a store, the directory exists and holds no .directory.lock.
WriteCreatesRoot ==
    \A c \in Constructors :
        (/\ ctor[c].kind = "write" /\ ctor[c].pc = "done" /\ ctor[c].abs0
         /\ faults = 0)
        => (ctor[c].res = "Ok" /\ dir = "rw" /\ ~Exists(fs, DirLock))

\* C17: when the two creators, both started on the absent path, have
\* returned, neither has failed, the directory exists and holds no
\* .directory.lock.
CreatorsConverge ==
    (/\ \A c \in Constructors :
           ctor[c].kind = "write" /\ ctor[c].pc = "done" /\ ctor[c].abs0
     /\ faults = 0)
    => /\ \A c \in Constructors : ctor[c].res = "Ok"
       /\ dir = "rw"
       /\ ~Exists(fs, DirLock)

\* C18: on a store without a limit, with no injected fault and no restart,
\* a put returns Ok whatever other keys were put before it, and the entry of
\* every other key stored before it is still there with a content put for
\* that key.
KeyIndependence ==
    (last.op = "put" /\ opens = 0 /\ faults = 0 /\ limit = 0)
    => /\ last.res = "Ok"
       /\ \A k \in last.s0 \ {last.key} :
             Exists(fs, k) /\ ino[fs[k]] \in puts[k]

\* An OmneCache with any of its tiers enabled, an empty LRU cache, a
\* sideload directory whose entries hold D2 and a disk store whose entries
\* hold D1, opened without a limit.
InitOmne ==
    \E on \in SUBSET Tiers, cap \in 1..MaxItems,
       sk \in SUBSET {KeyA, KeyB}, dk \in SUBSET {KeyA, KeyB} :
        /\ InitBase("rw", {build_key(PREFIX, k) : k \in dk})
        /\ limit = 0
        /\ omne = [NoOmne EXCEPT
                     !.on = on,
                     !.cap = cap,
                     !.side = [n \in {build_key(PREFIX, k) : k \in sk} |-> D2]]

NextOmne == \E k \in OmneKeys, sf \in BOOLEAN, df \in BOOLEAN : OmneGet(k, sf, df)

SpecOmne == InitOmne /\ [][NextOmne]_vars

\* The tiers in the order of the lookup.
TierOrder == <<"memory", "sideload", "disk">>

\* C19: with the memory tier enabled, a get that the sideload or the disk
\* tier has answered leaves its value in the memory tier, and the get of the
\* same key that follows it is answered by the memory tier, with that value
\* and with no other tier consulted.
Promotion ==
    (omne.op = "get" /\ "memory" \in omne.on)
    => /\ omne.hit \in {"sideload", "disk"}
          => \E j \in DOMAIN omne.mem :
                omne.mem[j] = [k |-> omne.key, v |-> omne.val]
       /\ (omne.prev.hit \in {"sideload", "disk"} /\ omne.prev.key = omne.key)
          => /\ omne.seen = <<"memory">>
             /\ omne.res = "Ok"
             /\ omne.val = omne.prev.val

\* A get of a key held by the disk only was followed by a get of the same
\* key, answered from memory.
PromotionWitness ==
    /\ omne.op = "get"
    /\ omne.prev.hit = "disk" /\ omne.prev.key = omne.key
    /\ "sideload" \in omne.on
    /\ omne.seen = <<"memory">>
    /\ omne.val = D1

\* C20: a get in which no directory read failed consults the enabled tiers
\* in the order memory, sideload, disk up to the first one that holds the
\* key, and returns the value of that tier; it returns NotFound, all enabled
\* tiers consulted, exactly when no enabled tier holds the key.
LookupOrder ==
    (omne.op = "get" /\ ~omne.flt)
    => LET upto(n) == SelectSeq(SubSeq(TierOrder, 1, n),
                                LAMBDA t : t \in omne.on)
       IN  IF omne.held = {}
           THEN /\ omne.res = "NotFound"
                /\ omne.hit = "none"
                /\ omne.seen = upto(3)
           ELSE LET n == CHOOSE j \in 1..3 :
                            /\ TierOrder[j] \in omne.held
                            /\ \A i \in 1..(j - 1) : TierOrder[i] \notin omne.held
                IN  /\ omne.res = "Ok"
                    /\ omne.hit = TierOrder[n]
                    /\ omne.seen = upto(n)
                    /\ omne.val =
                         CASE n = 1 -> omne.mem[1].v
                           [] n = 2 -> omne.side[omne.key]
                           [] n = 3 -> ino[fs[omne.key]]

\* A key held by the sideload and the disk tier was answered by the
\* sideload tier, the disk not consulted; the memory tier is enabled.
LookupOrderWitness ==
    /\ omne.op = "get" /\ ~omne.flt
    /\ omne.held = {"sideload", "disk"}
    /\ omne.seen = <<"memory", "sideload">>
    /\ omne.val = D2

\* An OmneCache with any of its tiers enabled, an empty LRU cache, a
\* sideload directory that may hold D2 for the key a, and an empty disk
\* store opened without a limit; get and put calls, one at a time, no
\* system call failing.
InitOmneRW ==
    \E on \in SUBSET Tiers, cap \in 1..MaxItems, sk \in SUBSET {KeyA} :
        /\ InitBase("rw", {})
        /\ limit = 0
        /\ omne = [NoOmne EXCEPT
                     !.on = on,
                     !.cap = cap,
                     !.side = [n \in {build_key(PREFIX, k) : k \in sk} |-> D2]]

NextOmneRW ==
    \/ \E k \in OmneKeys : OmneGet(k, FALSE, FALSE)
    \/ \E k \in OmneKeys, v \in Payloads : OmnePutStart(k, v)
    \/ OmneDiskPut(1)
    \/ WriterStep(1, {})
    \/ OmnePutDone

SpecOmneRW == InitOmneRW /\ [][NextOmneRW]_vars

\* C21: a get of a key for which a put has returned Ok returns the value of
\* the last such put.
ReadYourWrites ==
    (omne.op = "get" /\ omne.key \in DOMAIN omne.wrote)
    => (omne.res = "Ok" /\ omne.val = omne.wrote[omne.key])

KeysDoNotCollide ==
    omne.on = {"memory"}
    => /\ (omne.op = "get" /\ omne.key \in omne.m0
           /\ Cardinality(omne.m0) < omne.cap)
          => (omne.res = "Ok" /\ omne.val = omne.wrote[omne.key])
       /\ (omne.op = "put" /\ omne.key \in omne.m0)
          => Len(omne.mem) = Cardinality(omne.m0)

\* In a cache of the memory tier alone, of capacity 2, a key was put, then
\* another one, and a get of the first key has returned.
KeysDoNotCollideWitness ==
    /\ omne.on = {"memory"}
    /\ omne.op = "get" /\ omne.res = "Ok"
    /\ omne.m0 = {omne.key}
    /\ Len(omne.mem) = 2

\* The prefixes of three Cacheable types and the keys of their entries.
TypePrefixes == {PREFIX, <<"p", "_", "a">>, <<"q">>}

TypeKeys == {KeyA, <<"a", "_", "a">>}

\* An OmneCache of the memory tier alone, used for entries of the three
\* types.
InitTypes ==
    \E cap \in 1..MaxItems :
        /\ InitBase("rw", {})
        /\ limit = 0
        /\ omne = [NoOmne EXCEPT !.on = {"memory"}, !.cap = cap]

NextTypes ==
    \/ \E t \in TypePrefixes, k \in TypeKeys : OmneGetAs(t, k, FALSE, FALSE)
    \/ \E t \in TypePrefixes, k \in TypeKeys, v \in Payloads :
          OmnePutStartAs(t, k, v)

SpecTypes == InitTypes /\ [][NextTypes]_vars

\* C24: the key built is the prefix, "_" and the key of the entry, and no
\* key built was built for entries of two types.
PrefixSeparatesTypes ==
    \A k \in DOMAIN omne.owner :
        /\ \A t \in omne.owner[k] :
              \E n \in TypeKeys : k = t \o <<"_">> \o n
        /\ Cardinality(omne.owner[k]) <= 1

\* put calls, one at a time, that may time out; the blocking task of a call
\* that has timed out runs to its end before the next call starts.
NextTimeout ==
    \/ /\ Quiet
       /\ calls < MaxCalls
       /\ \E k \in Keys, d \in Payloads : PutStart(1, k, d)
    \/ WriterStep(1, IoErrors)
    \/ PutTimeout(1)

SpecTimeout == InitEmpty /\ [][NextTimeout]_vars

\* C25: at the step by which a put call returns, with Ok or with an error,
\* the lock file and the temp file of its key that the call created are
\* not in the root.
ArtifactCleanup ==
    [][(last' # last /\ last'.op = "put")
       => /\ "lock" \in last'.mk => ~Exists(fs', key_lock_path(last'.key))
          /\ "tmp" \in last'.mk => ~Exists(fs', temp_path(last'.key))]_vars

\* Two put calls on one key, D1 by writer 1 and D2 by writer 2, with
\* injected I/O errors.
NextRace ==
    \/ \E w \in Writers :
          /\ PayloadOf[w] \notin puts[KeyA]
          /\ PutStart(w, KeyA, PayloadOf[w])
    \/ \E w \in Writers : WriterStep(w, IoErrors)

SpecRace == InitEmpty /\ [][NextRace]_vars

\* C26: a failed attempt of a put call whose error is PermissionDenied,
\* NotFound, InvalidInput or AlreadyExists is the last attempt of the call,
\* and the call returns that error.
PermanentNotRetried ==
    /\ \A w \in Writers :
          \A j \in 1..Len(wr[w].errs) : wr[w].errs[j] \notin Permanent
    /\ last.op = "put"
       => \A j \in 1..Len(last.errs) :
             last.errs[j] \in Permanent
             => (j = Len(last.errs) /\ j = last.att /\ last.res = last.errs[j])

\* C27: a put call makes at most MAX_RETRIES attempts, and when all of them
\* have failed with errors that are retried it returns the error of the
\* last one.
BoundedRetry ==
    /\ \A w \in Writers :
          wr[w].att <= MAX_RETRIES /\ Len(wr[w].errs) <= MAX_RETRIES
    /\ last.op = "put"
       => /\ last.att <= MAX_RETRIES
          /\ (/\ Len(last.errs) = MAX_RETRIES
              /\ \A j \in 1..MAX_RETRIES : last.errs[j] \notin Permanent)
             => last.res = last.errs[MAX_RETRIES]

\* C28: at the step by which a put whose admission found no permit returns,
\* the result is StorageFull, the lock file of the key is not in the root,
\* the call has created nothing but the lock file, it has acquired no
\* permit and the permits available are as before the step.
AdmissionRejection ==
    [][(last' # last /\ last'.op = "put" /\ last'.rej)
       => /\ last'.res = "StorageFull"
          /\ ~Exists(fs', key_lock_path(last'.key))
          /\ last'.mk = {"lock"}
          /\ ~last'.acq
          /\ permits' = permits]_vars

\* C29: at the step by which a put returns whose key had its entry in the
\* root when the call started, with one call at a time, the call has
\* acquired no permit and the permits available are those of its start.
OverwriteIsFree ==
    [][(last' # last /\ last'.op = "put" /\ last'.ex0)
       => (~last'.acq /\ permits' = last'.p0)]_vars

\* A put of a stored key has returned Ok with no permit available.
OverwriteIsFreeWitness ==
    /\ last.op = "put" /\ last.ex0
    /\ last.res = "Ok"
    /\ limit > 0 /\ permits = 0 /\ last.p0 = 0

\* C30: as write opens a root again with limit > 0 (no put was ever called
\* with a key named like a lock or temp file), the permits it consumes
\* are the lesser of limit and of the number of entries left by the
\* recovery that are no lock or temp file.
PermitInitialisation ==
    [][(opens' = opens + 1 /\ limit' > 0
        /\ puts[KeyATmp] = {} /\ puts[KeyALock] = {})
       => limit' - permits' = Min(Cardinality(LiveEntries(fs')), limit')]_vars

\* C31: at the step by which a put returns that has renamed its temp file
\* onto the entry of a key that had no entry when the call started, the
\* result is Ok, the lock file of the key is not in the root and the permit
\* the call acquired is not given back; and no step of a call on a key that
\* had its entry when the call started gives a permit back.
SuccessBookkeeping ==
    [][opens' = opens
       => /\ \A w \in Writers :
                (/\ wr[w].pc = "unlink" /\ wr'[w].pc = "idle"
                 /\ ~wr[w].det /\ ~wr[w].ex0)
                => /\ last'.op = "put" /\ last'.res = "Ok"
                   /\ ~Exists(fs', key_lock_path(wr[w].key))
                   /\ permits' = permits
          /\ \A w \in Writers :
                (wr[w].ex0 /\ wr'[w] # wr[w]) => permits' <= permits]_vars

\* put calls, one at a time, on a root in which another process makes the
\* temp path of the key a a symbolic link to the name b, which has an entry
\* or has none.
InitLink == \E have \in {{}, {KeyB}} : InitWith(have)

NextLink ==
    \/ /\ Quiet
       /\ calls < MaxCalls
       /\ \E k \in ConcKeys, d \in Payloads : PutStart(1, k, d)
    \/ WriterStep(1, {})
    \/ PlantLink(KeyA, KeyB)

SpecLink == InitLink /\ [][NextLink]_vars

\* C32: a put that finds a symbolic link at the temp path of its key as its
\* blocking task starts returns InvalidInput in that step, and the step
\* leaves the entries of the root, their contents, the link and the permits
\* as they were.
SymlinkGuard ==
    [][\A w \in Writers :
          (/\ wr[w].pc = "lock" /\ wr'[w] # wr[w]
           /\ IsLink(links, temp_path(wr[w].key)))
          => /\ last'.op = "put" /\ last'.res = "InvalidInput"
             /\ UNCHANGED <<fs, ino, links, permits>>]_vars

\* Concurrent put calls with the keys "a", "a.x" and "a..tmp" on a working
\* filesystem.
NextNames ==
    \/ /\ calls < MaxCalls
       /\ \E w \in Writers, k \in NameKeys : PutStart(w, k, PayloadOf[w])
    \/ \E w \in Writers : WriterStep(w, {})

SpecNames == InitEmpty /\ [][NextNames]_vars

\* C33: the lock file and the temp file of a put are named by the key
\* followed by ".lock" and ".tmp"; and of two distinct keys put was called
\* with, the lock paths differ, the temp paths differ, and the entry of
\* neither is the lock or the temp path of the other.
NamingPerKey ==
    LET called == {k \in NameKeys : puts[k] # {}}
    IN  /\ \A k \in called :
              /\ key_lock_path(k) = k \o LockExt
              /\ temp_path(k) = k \o TmpExt
        /\ \A k1, k2 \in called :
              k1 # k2
              => /\ key_lock_path(k1) # key_lock_path(k2)
                 /\ temp_path(k1) # temp_path(k2)
                 /\ k1 \notin {key_lock_path(k2), temp_path(k2)}

\* C34: a put with a valid key on a root that is read-only returns a
\* permission error in the step that starts it, with the entries of the
\* root and the permits as they were; and a put with a valid key on a root
\* that is absent leaves the root created.
PutChecksRoot ==
    [][(/\ calls' = calls + 1
        /\ \/ \E w \in Writers : wr'[w].pc = "lock" /\ wr'[w].key \in Keys
           \/ last'.op = "put" /\ last'.key \in Keys)
       => /\ dir = "ro"
             => /\ last'.op = "put"
                /\ last'.res \in {"ReadOnlyFilesystem", "PermissionDenied"}
                /\ UNCHANGED <<fs, ino, links, permits>>
          /\ dir = "absent" => dir' = "rw"]_vars

\* C35: the step by which a put returns AlreadyExists, its key's lock file
\* being there, leaves the lock file in place and the temp file of the key
\* as well, if there is one.
FailedLockRemovesNothing ==
    [][\A w \in Writers :
          (/\ wr[w].pc = "lock" /\ wr'[w].pc = "idle"
           /\ last'.op = "put" /\ last'.res = "AlreadyExists")
          => /\ Exists(fs', key_lock_path(wr[w].key))
             /\ Exists(fs, temp_path(wr[w].key))
                => Exists(fs', temp_path(wr[w].key))]_vars

\* C36: once a put has returned an error, TimedOut included, the live
\* entries of the root and their contents and the permits available are
\* those of the start of the call, until the next call starts.
FailedPutChangesNothing ==
    (last.op = "put" /\ last.res # "Ok")
    => /\ LiveContent(fs, ino) = last.f0
       /\ permits = last.p0

DiskKeys == {build_key(PREFIX, k) : k \in OmneKeys}

InitReads ==
    \E on \in SUBSET Tiers, cap \in 1..MaxItems,
       sk \in SUBSET {KeyA}, dk \in SUBSET {KeyA} :
        /\ InitBase("rw", {build_key(PREFIX, k) : k \in dk})
        /\ limit = 0
        /\ omne = [NoOmne EXCEPT
                     !.on = on,
                     !.cap = cap,
                     !.side = [n \in {build_key(PREFIX, k) : k \in sk} |-> D2]]

NextReads ==
    \/ \E k \in OmneKeys : OmneGet(k, FALSE, FALSE)
    \/ \E k \in OmneKeys, v \in Payloads : OmnePutStart(k, v)
    \/ OmneDiskPut(1)
    \/ WriterStep(1, {})
    \/ OmnePutDone
    \/ /\ calls < MaxCalls
       /\ \E r \in Readers, k \in DiskKeys : GetStart(r, k)
    \/ \E r \in Readers : ReaderStep(r, IoErrors)
    \/ \E r \in Readers : ReaderFault(r)

SpecReads == InitReads /\ [][NextReads]_vars

\* C38: a step of a get, of the disk store or of the OmneCache, leaves the
\* root of the disk store, its entries and links and their contents as they
\* were; and no step of a get or of a put changes the entries of the
\* sideload directory.
ReadsDoNotWrite ==
    [][/\ (rd' # rd \/ (omne' # omne /\ omne'.op = "get"))
          => /\ UNCHANGED <<dir, fs, links, age>>
             /\ \A n \in DOMAIN fs : ino'[fs'[n]] = ino[fs[n]]
       /\ omne'.side = omne.side]_vars

\* A get of the disk store has returned the content of an entry, and a get
\* of the OmneCache answered by the disk tier has left the value in the
\* memory tier and not in the sideload directory.
ReadsDoNotWriteWitness ==
    /\ last.op = "get" /\ last.res = "Some"
    /\ Exists(fs, last.key) /\ ino[fs[last.key]] = last.val
    /\ omne.op = "get" /\ omne.hit = "disk"
    /\ Tiers \subseteq omne.on
    /\ LruHas(omne.mem, omne.key)
    /\ omne.key \notin DOMAIN omne.side
    /\ Exists(fs, omne.key)

\* C39, as claimed: a store opened with a limit > 0 on a root that holds as
\* many entries as the limit, or more, after the recovery has no permit
\* left; and on that store a put that no injected fault hits returns Ok when
\* its key had an entry as the call started and StorageFull when it had
\* none.
FullAtConstruction ==
    /\ sweep.full => permits = 0
    /\ (sweep.full /\ last.op = "put" /\ ~last.flt)
       => last.res = (IF last.ex0 THEN "Ok" ELSE "StorageFull")

\* C39, amended: a store opened with a limit > 0 on a root that holds as
\* many entries as the limit, or more, after the recovery has no permit
\* left; on that store no put of a key that had no entry as the call
\* started returns Ok, and no put of a key that had one is refused for want
\* of a permit; and a put that has created the lock file of its key and
\* that no injected fault hits, no other call running, returns StorageFull
\* in the first case and Ok in the second.
FullAtConstructionLocked ==
    /\ sweep.full => permits = 0
    /\ (sweep.full /\ last.op = "put")
       => /\ IF last.ex0 THEN ~last.rej ELSE last.res # "Ok"
          /\ (~last.flt /\ "lock" \in last.mk)
             => last.res = (IF last.ex0 THEN "Ok" ELSE "StorageFull")

\* On a store opened with limit 1 on a root that held an entry, the put of
\* another key was refused with StorageFull, the lock file of the key
\* created and removed again.
FullAtConstructionWitness ==
    /\ sweep.full /\ limit = 1 /\ opens > 0
    /\ last.op = "put" /\ ~last.flt /\ ~last.ex0
    /\ "lock" \in last.mk
    /\ last.res = "StorageFull"
    /\ LiveEntries(fs) # {}
    /\ ~Exists(fs, last.key)

(***************************************************************************)
(* Construction from a configuration: OmneCache::try_from, lib.rs:141-165, *)
(* with MemoryCfg::lru_cache, SideloadCfg::as_fs_cache and                 *)
(* DiskCfg::as_fs_cache.  An Option is a set: None is {}, Some(x) is {x}.  *)
(***************************************************************************)
Unwrap(o) == CHOOSE x \in o : TRUE

Options(S) == {{}} \cup {{x} : x \in S}

\* MemoryCfg, memory_conf.rs:34-40.
MemoryCfgs == [disabled : BOOLEAN, items : Options(0..MaxItems)]

\* SideloadCfg, sideload_conf.rs:15-21; a path is given by what is found
\* at it: nothing, a read-only directory or a writable one.
SideloadCfgs == [disabled : BOOLEAN, path : Options({"absent", "ro", "rw"})]

\* DiskCfg, disk_conf.rs:39-47; the path, when given, is the root.
DiskCfgs == [disabled : BOOLEAN, path : Options({"root"}),
             items : Options(0..MaxLimit)]

OmneCacheCfgs == [memory : Options(MemoryCfgs),
                  sideload : Options(SideloadCfgs),
                  disk : Options(DiskCfgs)]

\* memory_conf.rs:54-77: the result of lru_cache.
lru_cache(m) ==
    IF m.disabled THEN "Other"
    ELSE IF m.items # {}
         THEN IF Unwrap(m.items) # 0 THEN "Ok" ELSE "InvalidInput"
         ELSE "InvalidInput"

\* FsCache::new_read, called at sideload_conf.rs:113: the read-only store
\* on the directory at the path, opened as read opens it.
new_read(p) ==
    IF p = "absent" THEN "NotFound"
    ELSE IF readonly(p) THEN "Ok" ELSE "PermissionDenied"

\* FsCache::new_write, called at disk_conf.rs:89: the read-write store on
\* the directory at the path, opened as write opens it.
new_write(d) == IF d = "absent" THEN "NotFound" ELSE "Ok"

\* sideload_conf.rs:94-119.
SideloadCfg_as_fs_cache(c) ==
    IF c.disabled THEN "Other"
    ELSE IF c.path # {}
         THEN IF Unwrap(c.path) = "absent" THEN "NotFound"
              ELSE new_read(Unwrap(c.path))
         ELSE "InvalidInput"

\* disk_conf.rs:80-96, the root being d.
DiskCfg_as_fs_cache(c, d) ==
    IF c.disabled THEN "Other"
    ELSE IF c.path # {} /\ c.items # {} THEN new_write(d)
         ELSE "InvalidInput"

\* A mutant of memory_wanted: a memory sub-configuration is converted even
\* when it is marked disabled.
MemoryPresent(c) == c.memory # {}

\* lib.rs:143-146: the arm Some(memory) if !memory.disabled.
memory_wanted(c) == c.memory # {} /\ ~Unwrap(c.memory).disabled

\* lib.rs:141-165: what each sub-configuration converts to, in the order
\* of try_from; "skip" where no conversion is called.
Conversions(c, d) ==
    <<[tier |-> "memory",
       res  |-> IF memory_wanted(c) THEN lru_cache(Unwrap(c.memory))
                ELSE "skip"],
      [tier |-> "sideload",
       res  |-> IF c.sideload # {}
                THEN SideloadCfg_as_fs_cache(Unwrap(c.sideload))
                ELSE "skip"],
      [tier |-> "disk",
       res  |-> IF c.disk # {} THEN DiskCfg_as_fs_cache(Unwrap(c.disk), d)
                ELSE "skip"]>>

\* The first conversion that fails, 0 when none does: each conversion is
\* followed by the ? operator.
FirstError(cs) ==
    IF \E j \in DOMAIN cs : cs[j].res \notin {"Ok", "skip"}
    THEN CHOOSE j \in DOMAIN cs :
            /\ cs[j].res \notin {"Ok", "skip"}
            /\ \A i \in 1..(j - 1) : cs[i].res \in {"Ok", "skip"}
    ELSE 0

\* OmneCache::try_from, lib.rs:141-165.  When the disk store is opened the
\* root is cleaned up and the permits are counted, as write does
\* (fs.rs:301-330).
TryFrom ==
    /\ omne.built = "none"
    /\ LET c   == omne.cfg
           cs  == Conversions(c, dir)
           e   == FirstError(cs)
           on  == {cs[j].tier : j \in {i \in DOMAIN cs : cs[i].res = "Ok"}}
       IN  IF e # 0
           THEN /\ omne' = [omne EXCEPT !.built = cs[e].res]
                /\ UNCHANGED <<fs, ino, age, links, limit, permits,
                                fit, sweep>>
           ELSE /\ omne' = [omne EXCEPT
                              !.built = "Ok",
                              !.on = on,
                              !.cap = IF "memory" \in on
                                      THEN Unwrap(Unwrap(c.memory).items)
                                      ELSE 0]
                /\ IF "disk" \in on
                   THEN LET f   == cleanup_temp_files(fs, age)
                            l   == cleanup_links(links)
                            lim == Unwrap(Unwrap(c.disk).items)
                        IN  /\ CommitWith(f, ino, {}, wr, rd)
                            /\ links' = l
                            /\ limit' = lim
                            /\ permits' = initial_permits(
                                   Cardinality(DOMAIN f \cup DOMAIN l), lim)
                            /\ fit' = (Cardinality(LiveEntries(f)) <= lim)
                            /\ sweep' = [NoSweep EXCEPT
                                 !.full = /\ lim > 0
                                          /\ Cardinality(DOMAIN f \cup DOMAIN l)
                                                >= lim]
                   ELSE UNCHANGED <<fs, ino, age, links, limit, permits,
                                    fit, sweep>>
    /\ UNCHANGED <<dir, wr, rd, puts, stored, last, calls, opens, ticks,
                   faults, ctor>>

\* A configuration, and a root that is absent, read-only or writable and
\* may hold an entry and a temp file; no store is open yet.
InitCfg ==
    \E c \in OmneCacheCfgs, d \in {"rw", "ro", "absent"},
       have \in SUBSET {KeyA, temp_path(KeyA)} :
        /\ d = "absent" => have = {}
        /\ InitBase(d, have)
        /\ limit = 0
        /\ omne = [NoOmne EXCEPT !.cfg = c]

NextCfg == TryFrom

SpecCfg == InitCfg /\ [][NextCfg]_vars

\* C40: try_from builds no tier for a sub-configuration that is absent and
\* none for a memory sub-configuration marked disabled, and neither makes
\* it fail: it returns Ok when no other sub-configuration is present.  It
\* returns an error, and no tier is built, when the sideload or the disk
\* sub-configuration is present and is marked disabled or has no path, or
\* (disk) has no capacity, and when the memory sub-configuration is
\* present, not marked disabled, and its capacity is missing or zero.
ConfigConstruction ==
    omne.built # "none"
    => LET c == omne.cfg
           mem_off == c.memory = {} \/ Unwrap(c.memory).disabled
       IN  /\ mem_off => "memory" \notin omne.on
           /\ c.sideload = {} => "sideload" \notin omne.on
           /\ c.disk = {} => "disk" \notin omne.on
           /\ (mem_off /\ c.sideload = {} /\ c.disk = {})
              => omne.built = "Ok"
           /\ (\/ /\ c.sideload # {}
                  /\ \/ Unwrap(c.sideload).disabled
                     \/ Unwrap(c.sideload).path = {}
               \/ /\ c.disk # {}
                  /\ \/ Unwrap(c.disk).disabled
                     \/ Unwrap(c.disk).path = {}
                     \/ Unwrap(c.disk).items = {}
               \/ /\ ~mem_off
                  /\ Unwrap(c.memory).items \in {{}, {0}})
              => omne.built # "Ok" /\ omne.on = {}

\* try_from has returned Ok for a configuration whose memory
\* sub-configuration is marked disabled and has no capacity, whose sideload
\* sub-configuration is absent and whose disk sub-configuration is
\* complete: the disk tier alone is built.
ConfigConstructionWitness ==
    /\ omne.built = "Ok"
    /\ omne.cfg.memory # {} /\ omne.cfg.sideload = {} /\ omne.cfg.disk # {}
    /\ Unwrap(omne.cfg.memory).disabled
    /\ Unwrap(omne.cfg.memory).items = {}
    /\ omne.on = {"disk"}

====
